---- MODULE Spec2Model ----
(***************************************************************************)
(* Model of server.js: the decision evaluation pipeline (keyword           *)
(* screening, Gemini call with key failover, response parsing, heuristic   *)
(* fallback, clamping) and the round state machine of the HTTP handlers    *)
(* that consume its result.                                                *)
(*                                                                         *)
(* Text is modelled at word granularity: a text is a sequence of words     *)
(* (single spaces between them implied), a keyword is a run of words and   *)
(* String.includes is "occurs as a contiguous run"; the Vietnamese words   *)
(* are written without their diacritics.  JS numbers are kept as fixed     *)
(* point: the integer n stands for the number n / Scale.                   *)
(***************************************************************************)
EXTENDS Integers, Sequences, FiniteSets, TLC

\* ------------------------------------------------------------------ numbers

\* Resolution of the fixed-point numbers.
Scale == 2

\* The JS integer literal n as a model number.
Num(n) == n * Scale

Min(a, b) == IF a <= b THEN a ELSE b
Max(a, b) == IF a >= b THEN a ELSE b

\* clamp(num, min, max): Math.min(max, Math.max(min, num)).
clamp(num, min, max) == Min(max, Max(min, num))

\* --------------------------------------------------------------------- text

\* An extra whitespace character (a second blank, a tab, a line break).
WS == " "

VIOLATION_KEYWORDS ==
    << <<"chia", "re">>, <<"kich", "dong">>, <<"xam", "pham">>,
       <<"chong", "pha">>, <<"ep", "buoc">>, <<"trai", "phep">>,
       <<"me", "tin">>, <<"dien", "bien", "hoa", "binh">>, <<"bao", "luc">> >>

POSITIVE_KEYWORDS ==
    << <<"hoa", "binh">>, <<"doan", "ket">>, <<"tu", "thien">>,
       <<"giao", "duc">>, <<"phat", "trien">>, <<"ho", "tro">>,
       <<"ton", "trong">>, <<"khuyen", "khich">>, <<"cong", "bang">> >>

NEGATIVE_KEYWORDS ==
    << <<"bao", "luc">>, <<"chien", "tranh">>, <<"phan", "biet">>,
       <<"ap", "buc">>, <<"me", "tin">> >>

VIOLATION_COMMENT ==
    "Ban da vi pham cac quy dinh cua Nha nuoc, ton giao cua ban se bi xoa bo."

HEURISTIC_COMMENT == "Danh gia nhanh (heuristic)."

VIOLATION_MARK == "Vi pham"

\* The words of the model that have upper-case letters, with their lower case.
UpperWords ==
    [w \in {"KICH", "Dong", "DOAN", "Ket"} |->
        CASE w = "KICH" -> "kich"
          [] w = "Dong" -> "dong"
          [] w = "DOAN" -> "doan"
          [] w = "Ket"  -> "ket"]

\* String.prototype.toLowerCase, word by word.
toLowerCase(text) ==
    [i \in 1..Len(text) |->
        IF text[i] \in DOMAIN UpperWords THEN UpperWords[text[i]] ELSE text[i]]

\* String.prototype.includes.
includes(text, kw) ==
    \E i \in 1..(Len(text) - Len(kw) + 1) : \A j \in 1..Len(kw) : text[i + j - 1] = kw[j]

RECURSIVE TrimLeft(_)
TrimLeft(text) ==
    IF text # <<>> /\ Head(text) = WS THEN TrimLeft(Tail(text)) ELSE text

RECURSIVE TrimRight(_)
TrimRight(text) ==
    IF text # <<>> /\ text[Len(text)] = WS
    THEN TrimRight(SubSeq(text, 1, Len(text) - 1))
    ELSE text

\* String.prototype.trim.
TrimNothing(text) == text

trim(text) == TrimRight(TrimLeft(text))

\* for (const kw of VIOLATION_KEYWORDS) if (lower.includes(kw)) ...
HasViolationKeyword(lower) ==
    \E k \in 1..Len(VIOLATION_KEYWORDS) : includes(lower, VIOLATION_KEYWORDS[k])

\* Number of keywords of the list that occur in the text.
Hits(lower, keywords) ==
    Cardinality({k \in 1..Len(keywords) : includes(lower, keywords[k])})

\* The fixed result of a violation.
ViolationResult(comment, tips) ==
    [violation |-> TRUE, change |-> Num(-10000), comment |-> comment, tips |-> tips]

\* localHeuristic(decision), with randomFactor the value of
\* Math.floor(Math.random() * 7) - 2.
localHeuristicNoClamp(decision, randomFactor) ==
    LET lower == toLowerCase(decision)
        score == Hits(lower, POSITIVE_KEYWORDS) - Hits(lower, NEGATIVE_KEYWORDS)
    IN  IF HasViolationKeyword(lower)
        THEN ViolationResult(VIOLATION_COMMENT, <<>>)
        ELSE [violation |-> FALSE, change |-> Num(score * 50 + randomFactor * 20),
              comment |-> HEURISTIC_COMMENT, tips |-> <<>>]

localHeuristic(decision, randomFactor) ==
    LET lower == toLowerCase(decision)
        score == Hits(lower, POSITIVE_KEYWORDS) - Hits(lower, NEGATIVE_KEYWORDS)
        change == clamp(Num(score * 50 + randomFactor * 20), Num(-150), Num(300))
    IN  IF HasViolationKeyword(lower)
        THEN ViolationResult(VIOLATION_COMMENT, <<>>)
        ELSE [violation |-> FALSE, change |-> change,
              comment |-> HEURISTIC_COMMENT, tips |-> <<>>]

\* The values Math.floor(Math.random() * 7) - 2 can take.
RandomFactors == (-2)..4

\* ----------------------------------------------------------------- key pool

\* process.env as getApiKeys reads it.  GEMINI_API_KEYS is the list of the
\* entries between its commas; every value is a text (<<>> is unset or empty).
EnvOf(list, geminiKey, apiKey, googleKey) ==
    [GEMINI_API_KEYS |-> list, GEMINI_API_KEY |-> geminiKey,
     API_KEY |-> apiKey, GOOGLE_API_KEY |-> googleKey]

\* Array.prototype.filter(Boolean) on a list of strings: drops the empty ones.
RECURSIVE FilterBoolean(_)
FilterBoolean(list) ==
    IF list = <<>> THEN <<>>
    ELSE IF Head(list) = <<>> THEN FilterBoolean(Tail(list))
    ELSE <<Head(list)>> \o FilterBoolean(Tail(list))

\* Array.prototype.slice(0, n).
SliceFirst(list, n) == SubSeq(list, 1, Min(n, Len(list)))

\* The list getApiKeys returns when it does not throw.
CombinedKeys(e) ==
    LET list == FilterBoolean([i \in 1..Len(e.GEMINI_API_KEYS) |-> trim(e.GEMINI_API_KEYS[i])])
        singles == FilterBoolean(<<e.GEMINI_API_KEY, e.API_KEY, e.GOOGLE_API_KEY>>)
    IN  SliceFirst(FilterBoolean(list \o singles), 6)

\* getApiKeys(): the key list, or the error it throws when the list is empty.
NO_KEYS_ERROR == "API_KEY / GOOGLE_API_KEY / GEMINI_API_KEY / GEMINI_API_KEYS is not set"

getApiKeys(e) ==
    LET combined == CombinedKeys(e)
    IN  IF Len(combined) = 0
        THEN [threw |-> TRUE, error |-> NO_KEYS_ERROR, keys |-> <<>>]
        ELSE [threw |-> FALSE, error |-> "", keys |-> combined]

\* ------------------------------------------------------------ response text

\* A JSON value of an object's field: t is "absent", "null", "num", "str" or
\* "arr"; v is the number, the string or the array's strings.
JAbsent == [t |-> "absent", v |-> 0]
JNull == [t |-> "null", v |-> 0]
JNum(n) == [t |-> "num", v |-> n]
JStr(s) == [t |-> "str", v |-> s]
JArr(a) == [t |-> "arr", v |-> a]

\* A response text is a sequence of segments.  k is "ws" (white space),
\* "prose" (words without braces), "obj" (the text of a JSON object with the
\* fields change, comment, tips), "badobj" (braces around what is no JSON),
\* "num", "str", "bool", "null" (the text of a JSON scalar), "[" or "]".
Seg(kind) == [k |-> kind, change |-> JAbsent, comment |-> JAbsent, tips |-> JAbsent]
ObjSeg(change, comment, tips) ==
    [k |-> "obj", change |-> change, comment |-> comment, tips |-> tips]

\* trim on a response text.
RECURSIVE TrimSegs(_)
TrimSegs(segs) ==
    IF segs = <<>> THEN segs
    ELSE IF Head(segs).k = "ws" THEN TrimSegs(Tail(segs))
    ELSE IF segs[Len(segs)].k = "ws" THEN TrimSegs(SubSeq(segs, 1, Len(segs) - 1))
    ELSE segs

\* parts.map(p => p.text || '').join(' '): the parts' texts, a blank between.
RECURSIVE JoinParts(_)
JoinParts(parts) ==
    IF parts = <<>> THEN <<>>
    ELSE IF Len(parts) = 1 THEN Head(parts)
    ELSE Head(parts) \o <<Seg("ws")>> \o JoinParts(Tail(parts))

\* The text parseGeminiResult takes out of the response, by its shape:
\* "lazy" (resp.response.text()), "candidates" (candidates[0].content.parts),
\* "string" (resp is a string), anything else gives ''.
ResponseText(resp) ==
    CASE resp.shape = "lazy" -> resp.parts[1]
      [] resp.shape = "candidates" -> TrimSegs(JoinParts(resp.parts))
      [] resp.shape = "string" -> resp.parts[1]
      [] OTHER -> <<>>

\* text.match(/\{[\s\S]*\}/): from the first "{" to the last "}", or no match.
BraceSegs(segs) == {i \in 1..Len(segs) : segs[i].k \in {"obj", "badobj"}}

SetMin(S) == CHOOSE x \in S : \A y \in S : x <= y
SetMax(S) == CHOOSE x \in S : \A y \in S : x >= y

JsonText(segs) ==
    IF BraceSegs(segs) # {}
    THEN SubSeq(segs, SetMin(BraceSegs(segs)), SetMax(BraceSegs(segs)))
    ELSE segs

RECURSIVE DropWs(_)
DropWs(segs) ==
    IF segs = <<>> THEN <<>>
    ELSE IF Head(segs).k = "ws" THEN DropWs(Tail(segs))
    ELSE <<Head(segs)>> \o DropWs(Tail(segs))

JsonValueKinds == {"obj", "num", "str", "bool", "null"}

\* JSON.parse(jsonText): the kind of the value parsed ("obj", "num", "str",
\* "bool", "null", "arr") and, for an object, its segment; "error" when the
\* text is no JSON.  An array is "[", values, "]".
JSONparse(jsonText) ==
    LET toks == DropWs(jsonText)
        n == Len(toks)
    IN  IF n = 1 /\ toks[1].k \in JsonValueKinds
        THEN [kind |-> toks[1].k, value |-> toks[1]]
        ELSE IF n >= 2 /\ toks[1].k = "[" /\ toks[n].k = "]"
                /\ \A i \in 2..(n - 1) : toks[i].k \in JsonValueKinds
        THEN [kind |-> "arr", value |-> Seg("[")]
        ELSE [kind |-> "error", value |-> Seg("prose")]

\* x || y on a field value: absent, null, '' and 0 are falsy.
Truthy(j) ==
    /\ j.t \notin {"absent", "null"}
    /\ ~(j.t = "str" /\ j.v = "")
    /\ ~(j.t = "num" /\ j.v = 0)

EMPTY_RESPONSE_ERROR == "Empty response from Gemini"
NOT_JSON_ERROR == "Gemini response not in JSON format"
TYPE_ERROR == "TypeError: Cannot read properties of null"

ParseFailure(error) ==
    [threw |-> TRUE, error |-> error, change |-> 0, comment |-> "", tips |-> <<>>]

\* parseGeminiResult(resp): {change, comment, tips}, or the error thrown.
parseGeminiResult(resp) ==
    LET text == TrimSegs(ResponseText(resp))
        parsed == JSONparse(JsonText(text))
        obj == parsed.value
    IN  IF text = <<>> THEN ParseFailure(EMPTY_RESPONSE_ERROR)
        ELSE IF parsed.kind = "error" THEN ParseFailure(NOT_JSON_ERROR)
        ELSE IF parsed.kind = "null" THEN ParseFailure(TYPE_ERROR)
        ELSE [threw |-> FALSE, error |-> "",
              change |-> IF obj.change.t = "num" THEN obj.change.v ELSE 0,
              comment |-> IF Truthy(obj.comment) THEN obj.comment.v ELSE "",
              tips |-> IF obj.tips.t = "arr" THEN obj.tips.v ELSE <<>>]

\* What evaluateDecision returns for a parsed backend response (lines 270-278).
ResultOfParsedNoClamp(parsed) ==
    IF parsed.change <= Num(-10000)
    THEN ViolationResult(IF parsed.comment # "" THEN parsed.comment ELSE VIOLATION_COMMENT,
                         parsed.tips)
    ELSE [violation |-> FALSE, change |-> parsed.change,
          comment |-> parsed.comment, tips |-> parsed.tips]

ResultOfParsedClampFirst(parsed) ==
    [violation |-> FALSE,
     change |-> clamp(parsed.change, Num(-400), Num(400)),
     comment |-> parsed.comment,
     tips |-> parsed.tips]

ResultOfParsed(parsed) ==
    IF parsed.change <= Num(-10000)
    THEN ViolationResult(IF parsed.comment # "" THEN parsed.comment ELSE VIOLATION_COMMENT,
                         parsed.tips)
    ELSE [violation |-> FALSE,
          change |-> clamp(parsed.change, Num(-400), Num(400)),
          comment |-> parsed.comment,
          tips |-> parsed.tips]

\* -------------------------------------------------------------------- state

VARIABLES
    env,            \* process.env (fixed when the process starts)
    genai,          \* how @google/genai loads: "cjs" (require works), "esm"
                    \* (require throws, import() works), "missing" (both fail)
    aiClientCache,  \* the Map apiKey -> client (an index into clients)
    clients,        \* the GoogleGenAI objects created so far, by their apiKey
    sessions,       \* sessions[id]: <<>> (no such session) or <<session>>
    games,          \* the game objects created so far; session.game indexes it
    scoreboard,     \* the content of data/scoreboard.json
    reqs,           \* the POST /game requests being handled
    scoringError    \* the error of the last "Gemini scoring failed, using
                    \* heuristic" line on the console: <<>> or <<message>>

vars == <<env, genai, aiClientCache, clients, sessions, games, scoreboard, reqs, scoringError>>

\* session.game = null
NoGame == 0

NoContext == [religion |-> "", followers |-> 0, round |-> 0]
NoReply == [ok |-> FALSE, error |-> "", resp |-> [shape |-> "none", parts |-> <<>>]]

\* A request slot that handles no request.
IdleReq ==
    [pc |-> "idle", session |-> 0, body |-> <<>>, game |-> NoGame, decision |-> <<>>,
     context |-> NoContext, idx |-> 0, key |-> <<>>, lastError |-> "", attempts |-> <<>>,
     reply |-> NoReply]

\* The game object POST /start and POST /create make.
NewGame(religion) ==
    [religion |-> religion, followers |-> Num(100), round |-> 1,
     history |-> <<>>, lastFeedback |-> <<>>]

\* map.set(key, value)
MapSet(map, key, value) ==
    [k \in DOMAIN map \cup {key} |-> IF k = key THEN value ELSE map[k]]

\* The session of a request with cookie id (sessions[sessionId] or null).
HasSession(id) == sessions[id] # <<>>
SessionGame(id) == sessions[id][1].game

\* ------------------------------------------------------- round state machine

\* Lines 692-705 of the POST /game handler: the game after result is applied.
GameAfterViolationNextRound(game, decision, result) ==
    [game EXCEPT
        !.followers = 0,
        !.history = Append(@, [round |-> game.round, decision |-> decision,
                               change |-> JStr(VIOLATION_MARK),
                               comment |-> result.comment]),
        !.lastFeedback = <<result>>,
        !.round = game.round + 1]

GameAfterViolation(game, decision, result) ==
    [game EXCEPT
        !.followers = 0,
        !.history = Append(@, [round |-> game.round, decision |-> decision,
                               change |-> JStr(VIOLATION_MARK),
                               comment |-> result.comment]),
        !.lastFeedback = <<result>>,
        !.round = 11]

GameAfterScoreNoFloor(game, decision, result) ==
    [game EXCEPT
        !.followers = game.followers + result.change,
        !.history = Append(@, [round |-> game.round, decision |-> decision,
                               change |-> JNum(result.change),
                               comment |-> result.comment, tips |-> result.tips]),
        !.lastFeedback = <<result>>,
        !.round = game.round + 1]

GameAfterScoreSameRound(game, decision, result) ==
    [game EXCEPT
        !.followers = IF game.followers + result.change < 0 THEN 0
                      ELSE game.followers + result.change,
        !.history = Append(@, [round |-> game.round, decision |-> decision,
                               change |-> JNum(result.change),
                               comment |-> result.comment, tips |-> result.tips]),
        !.lastFeedback = <<result>>,
        !.round = game.round]

GameAfterScore(game, decision, result) ==
    [game EXCEPT
        !.followers = IF game.followers + result.change < 0 THEN 0
                      ELSE game.followers + result.change,
        !.history = Append(@, [round |-> game.round, decision |-> decision,
                               change |-> JNum(result.change),
                               comment |-> result.comment, tips |-> result.tips]),
        !.lastFeedback = <<result>>,
        !.round = game.round + 1]

GameAfter(game, decision, result) ==
    IF result.violation
    THEN GameAfterViolation(game, decision, result)
    ELSE GameAfterScore(game, decision, result)

\* The handler's last synchronous stretch: apply the result to the game the
\* request captured and answer (the HTTP responses are not modelled).
FinishFirstGame(r, req, result) ==
    /\ games' = [games EXCEPT ![1] = GameAfter(games[1], req.decision, result)]
    /\ reqs' = [reqs EXCEPT ![r] = IdleReq]

\* The result applied to the game the session holds when the evaluation ends
\* (session.game read again after the await) instead of the game of line 685.
FinishSessionGame(r, req, result) ==
    LET g == IF HasSession(req.session) /\ SessionGame(req.session) # NoGame
             THEN SessionGame(req.session) ELSE req.game
    IN  /\ games' = [games EXCEPT ![g] = GameAfter(games[g], req.decision, result)]
        /\ reqs' = [reqs EXCEPT ![r] = IdleReq]

Finish(r, req, result) ==
    /\ games' = [games EXCEPT ![req.game] = GameAfter(games[req.game], req.decision, result)]
    /\ reqs' = [reqs EXCEPT ![r] = IdleReq]

\* The catch of evaluateDecision (lines 279-282): log the error, return
\* localHeuristic(decision); the handler applies it.
FallbackRethrows(P, r, req, error) ==
    /\ scoringError' = <<error>>
    /\ reqs' = [reqs EXCEPT ![r] = IdleReq]
    /\ UNCHANGED games

Fallback(P, r, req, error) ==
    /\ scoringError' = <<error>>
    /\ \E f \in P.factors : Finish(r, req, localHeuristic(req.decision, f))

\* ------------------------------------------------------------ key-pool client

\* The key list of a callGemini call that got past getApiKeys.
ApiKeys == getApiKeys(env).keys

\* for (const key of apiKeys): the key of the loop's i-th turn.
KeyOfTurnReversed(i) == ApiKeys[Len(ApiKeys) + 1 - i]

KeyOfTurn(i) == ApiKeys[i]

\* One turn of callGemini's loop, up to its first real wait: getClientForKey
\* (cache hit, or require and new GoogleGenAI, or the wait for import()), then
\* generateContent is in flight.
AttemptKey(r, req, i) ==
    LET key == KeyOfTurn(i)
    IN  IF key \in DOMAIN aiClientCache
        THEN /\ reqs' = [reqs EXCEPT ![r] = [req EXCEPT !.pc = "calling", !.idx = i, !.key = key]]
             /\ UNCHANGED <<aiClientCache, clients>>
        ELSE IF genai = "cjs"
        THEN /\ clients' = Append(clients, key)
             /\ aiClientCache' = MapSet(aiClientCache, key, Len(clients) + 1)
             /\ reqs' = [reqs EXCEPT ![r] = [req EXCEPT !.pc = "calling", !.idx = i, !.key = key]]
        ELSE /\ reqs' = [reqs EXCEPT ![r] = [req EXCEPT !.pc = "importing", !.idx = i, !.key = key]]
             /\ UNCHANGED <<aiClientCache, clients>>

\* The catch of callGemini's loop for the key in hand, then the next turn; past
\* the last key callGemini throws lastError.  What a key fails with is an Error
\* object, as the client library and import() give: never a falsy value.
FailKeyGivesUp(P, r, req, error) ==
    /\ Fallback(P, r, [req EXCEPT !.lastError = error], error)
    /\ UNCHANGED <<aiClientCache, clients>>

FailKeyKeepsFirst(P, r, req, error) ==
    LET failed == [req EXCEPT
                     !.lastError = IF req.lastError = "" THEN error ELSE req.lastError,
                     !.attempts = Append(@, [idx |-> req.idx, key |-> req.key,
                                             error |-> error])]
    IN  IF req.idx < Len(ApiKeys)
        THEN /\ AttemptKey(r, failed, req.idx + 1)
             /\ UNCHANGED <<games, scoringError>>
        ELSE /\ Fallback(P, r, failed, failed.lastError)
             /\ UNCHANGED <<aiClientCache, clients>>

FailKey(P, r, req, error) ==
    LET failed == [req EXCEPT
                     !.lastError = error,
                     !.attempts = Append(@, [idx |-> req.idx, key |-> req.key,
                                             error |-> error])]
    IN  IF req.idx < Len(ApiKeys)
        THEN /\ AttemptKey(r, failed, req.idx + 1)
             /\ UNCHANGED <<games, scoringError>>
        ELSE /\ Fallback(P, r, failed, failed.lastError)
             /\ UNCHANGED <<aiClientCache, clients>>

\* ------------------------------------------------------------------ handlers

\* The first loop of evaluateDecision (lines 261-266).
ScreenNoLowerCase(decision) == HasViolationKeyword(decision)

Screen(decision) == HasViolationKeyword(toLowerCase(decision))

\* createSession: a fresh session id, no game.
Login(P, s) ==
    /\ sessions[s] = <<>>
    /\ \E name \in P.usernames :
          sessions' = [sessions EXCEPT ![s] = <<[username |-> name, game |-> NoGame]>>]
    /\ UNCHANGED <<env, genai, aiClientCache, clients, games, scoreboard, reqs, scoringError>>

\* sessions[sessionId].game = { religion, followers: 100, round: 1, history: [] }
StartGame(s, religion) ==
    /\ games' = Append(games, NewGame(religion))
    /\ sessions' = [sessions EXCEPT ![s][1].game = Len(games) + 1]

\* POST /start with religion_choice = choice (<<>>: the field is missing).
PostStart(P, s) ==
    /\ \E choice \in P.choices :
          IF ~HasSession(s) \/ choice = <<>> \/ choice = <<"custom">>
          THEN UNCHANGED <<sessions, games>>
          ELSE Len(games) < P.maxGames /\ StartGame(s, choice)
    /\ UNCHANGED <<env, genai, aiClientCache, clients, scoreboard, reqs, scoringError>>

\* POST /create with religion_name = name.
PostCreate(P, s) ==
    /\ \E name \in P.names :
          IF ~HasSession(s) \/ trim(name) = <<>>
          THEN UNCHANGED <<sessions, games>>
          ELSE Len(games) < P.maxGames /\ StartGame(s, trim(name))
    /\ UNCHANGED <<env, genai, aiClientCache, clients, scoreboard, reqs, scoringError>>

\* The requests of session s that are being handled.
Pending(s) == {r \in DOMAIN reqs : reqs[r].pc # "idle" /\ reqs[r].session = s}

IdleSlots == {r \in DOMAIN reqs : reqs[r].pc = "idle"}

\* The decisions submitted so far: those applied to a game and those in hand.
RECURSIVE Applied(_)
Applied(gs) == IF gs = <<>> THEN 0 ELSE Len(Head(gs).history) + Applied(Tail(gs))

Submitted == Applied(games) + Cardinality(DOMAIN reqs \ IdleSlots)

\* POST /game arrives with form field decision = raw: the guard of lines
\* 603-607, then the handler collects the request body.
PostGame(P, s) ==
    /\ IF ~HasSession(s) \/ SessionGame(s) = NoGame
       THEN UNCHANGED reqs
       ELSE /\ IdleSlots # {}
            /\ Submitted < P.maxSubmits
            /\ \E raw \in P.decisions :
                  reqs' = [reqs EXCEPT ![SetMin(IdleSlots)] =
                             [IdleReq EXCEPT !.pc = "body", !.session = s, !.body = raw]]
    /\ UNCHANGED <<env, genai, aiClientCache, clients, sessions, games, scoreboard, scoringError>>

\* The body of POST /game has arrived (req.on('end')): lines 678-691 and
\* evaluateDecision up to its first real wait, or to its end when it has none.
\* With session.game null, game.religion throws and the handler answers 500.
GameBody(P, r) ==
    /\ reqs[r].pc = "body"
    /\ LET s == reqs[r].session
           decision == trim(reqs[r].body)
           g == SessionGame(s)
           req == [reqs[r] EXCEPT
                        !.body = <<>>, !.game = g, !.decision = decision,
                        !.context = [religion |-> games[g].religion,
                                     followers |-> games[g].followers,
                                     round |-> games[g].round]]
       IN  IF decision = <<>> \/ g = NoGame
              THEN /\ reqs' = [reqs EXCEPT ![r] = IdleReq]
                   /\ UNCHANGED <<aiClientCache, clients, games, scoringError>>
              ELSE IF Screen(decision)
              THEN /\ Finish(r, req, ViolationResult(VIOLATION_COMMENT, <<>>))
                   /\ UNCHANGED <<aiClientCache, clients, scoringError>>
              ELSE IF getApiKeys(env).threw
              THEN /\ Fallback(P, r, req, getApiKeys(env).error)
                   /\ UNCHANGED <<aiClientCache, clients>>
              ELSE /\ AttemptKey(r, req, 1)
                   /\ UNCHANGED <<games, scoringError>>
    /\ UNCHANGED <<env, genai, sessions, scoreboard>>

IMPORT_ERROR == "Cannot find package '@google/genai'"

\* await import('@google/genai') settles: the client is made and cached and
\* generateContent goes out, or the import failed and the key is given up.
ImportSettles(P, r) ==
    /\ reqs[r].pc = "importing"
    /\ IF genai = "esm"
       THEN /\ clients' = Append(clients, reqs[r].key)
            /\ aiClientCache' = MapSet(aiClientCache, reqs[r].key, Len(clients) + 1)
            /\ reqs' = [reqs EXCEPT ![r].pc = "calling"]
            /\ UNCHANGED <<games, scoringError>>
       ELSE FailKey(P, r, reqs[r], IMPORT_ERROR)
    /\ UNCHANGED <<env, genai, sessions, scoreboard>>

\* The backend answers the generateContent call of request r: an error or a
\* response object.
BackendReplies(P, r) ==
    /\ reqs[r].pc = "calling"
    /\ \E reply \in P.replies : reqs' = [reqs EXCEPT ![r].pc = "replied", ![r].reply = reply]
    /\ UNCHANGED <<env, genai, aiClientCache, clients, sessions, games, scoreboard, scoringError>>

\* The handler resumes after generateContent: callGemini returns the response
\* or goes on with the next key; evaluateDecision parses, falls back; the
\* handler applies the result.
Resume(P, r) ==
    /\ reqs[r].pc = "replied"
    /\ LET req == reqs[r]
           parsed == parseGeminiResult(req.reply.resp)
       IN  IF ~req.reply.ok
           THEN FailKey(P, r, req, req.reply.error)
           ELSE /\ IF parsed.threw
                   THEN Fallback(P, r, req, parsed.error)
                   ELSE Finish(r, req, ResultOfParsed(parsed)) /\ UNCHANGED scoringError
                /\ UNCHANGED <<aiClientCache, clients>>
    /\ UNCHANGED <<env, genai, sessions, scoreboard>>

\* scoreboard.sort((a, b) => b.score - a.score): stable, highest score first.
RECURSIVE InsertByScore(_, _)
InsertByScore(sorted, entry) ==
    IF sorted = <<>> THEN <<entry>>
    ELSE IF Head(sorted).score >= entry.score
    THEN <<Head(sorted)>> \o InsertByScore(Tail(sorted), entry)
    ELSE <<entry>> \o sorted

RECURSIVE SortByScore(_)
SortByScore(list) ==
    IF list = <<>> THEN <<>>
    ELSE InsertByScore(SortByScore(SubSeq(list, 1, Len(list) - 1)), list[Len(list)])

\* /end that leaves the game with the session: the reset of line 748 left out.
EndPageKeepsGame(P, s) ==
    /\ IF ~HasSession(s) \/ SessionGame(s) = NoGame
       THEN UNCHANGED <<sessions, scoreboard>>
       ELSE LET game == games[SessionGame(s)]
            IN  /\ scoreboard' =
                      IF game.followers >= Num(600)
                      THEN SortByScore(Append(scoreboard,
                               [username |-> sessions[s][1].username,
                                religion |-> game.religion,
                                score |-> game.followers]))
                      ELSE scoreboard
                /\ UNCHANGED sessions
    /\ UNCHANGED <<env, genai, aiClientCache, clients, games, reqs, scoringError>>

\* GET /end.
EndPage(P, s) ==
    /\ IF ~HasSession(s) \/ SessionGame(s) = NoGame
       THEN UNCHANGED <<sessions, scoreboard>>
       ELSE LET game == games[SessionGame(s)]
            IN  /\ scoreboard' =
                      IF game.followers >= Num(600)
                      THEN SortByScore(Append(scoreboard,
                               [username |-> sessions[s][1].username,
                                religion |-> game.religion,
                                score |-> game.followers]))
                      ELSE scoreboard
                /\ sessions' = [sessions EXCEPT ![s][1].game = NoGame]
    /\ UNCHANGED <<env, genai, aiClientCache, clients, games, reqs, scoringError>>

\* ------------------------------------------------------------------- inputs

K1 == <<"K1">>
K2 == <<"K2">>

ErrReply(error) == [ok |-> FALSE, error |-> error, resp |-> NoReply.resp]
OkReply(resp) == [ok |-> TRUE, error |-> "", resp |-> resp]

\* The three response shapes parseGeminiResult knows, and one it does not.
Lazy(text) == [shape |-> "lazy", parts |-> <<text>>]
Candidates(parts) == [shape |-> "candidates", parts |-> parts]
PlainString(text) == [shape |-> "string", parts |-> <<text>>]
UnknownShape == [shape |-> "object", parts |-> <<>>]

\* The text {"change": c, "comment": comment, "tips": tips}.
Scored(c, comment, tips) == <<ObjSeg(JNum(c), JStr(comment), JArr(tips))>>

Benign == <<"xay", "truong">>
Violating == <<"KICH", "Dong">>
Blank == <<WS>>

\* Bounds of the server specification Spec (one session): POST /game requests
\* handled at once, games started and decisions submitted in a run.
MaxReqs == 2
MaxGames == 1
MaxSubmits == 2

\* What a specification draws its inputs from, and its bounds.
MainProfile ==
    [sessions |-> {1}, slots |-> 1..MaxReqs,
     maxGames |-> MaxGames, maxSubmits |-> MaxSubmits,
     envs |-> {EnvOf(<<K1>>, <<>>, <<>>, <<>>)},
     genais |-> {"cjs", "esm"},
     usernames |-> {"an"},
     choices |-> {<<>>, <<"custom">>, <<"Phat giao">>},
     names |-> {Blank, <<"Dao moi">>},
     decisions |-> {Blank, Benign, Violating},
     replies |-> {ErrReply("quota"),
                  OkReply(Lazy(Scored(Num(400), "ok", <<"a">>))),
                  OkReply(Lazy(Scored(Num(-400), "weak", <<>>))),
                  OkReply(Lazy(Scored(Num(-10000), "violated", <<>>)))},
     factors |-> {-2}]

\* Bound of the specification SpecLong: one game played through, one request
\* at a time.
LongSubmits == 10

LongProfile ==
    [sessions |-> {1}, slots |-> {1},
     maxGames |-> 1, maxSubmits |-> LongSubmits,
     envs |-> {EnvOf(<<>>, K1, <<>>, <<>>)},
     genais |-> {"esm"},
     usernames |-> {"an"},
     choices |-> {<<"Phat giao">>},
     names |-> {<<"Dao moi">>},
     decisions |-> {Benign},
     replies |-> {ErrReply("quota"),
                  OkReply(Lazy(Scored(Num(-400), "weak", <<>>)))},
     factors |-> {4}]

\* Bound of the specification SpecEval: the words of a decision text.
MaxWords == 2

Vocabulary == {WS, "KICH", "dong", "doan", "ket", "phan", "biet"}

Texts(n) == UNION {[1..k -> Vocabulary] : k \in 0..n}

\* Response texts: scores in and out of range, the violation sentinel with
\* and without a comment, a fraction, fields of the wrong type, and texts
\* that are no JSON object.
EvalTexts ==
    {Scored(Num(120), "ok", <<"a">>),
     Scored(Num(500), "high", <<>>),
     Scored(Num(-9999), "low", <<>>),
     Scored(Num(-10000), "violated", <<>>),
     Scored(Num(-10000), "", <<"b">>),
     Scored(Num(-20000), "violated", <<>>),
     <<ObjSeg(JStr("120"), JNull, JStr("a"))>>,
     <<Seg("prose"), Seg("ws"), ObjSeg(JNum(Num(80)), JAbsent, JAbsent), Seg("ws")>>,
     <<Seg("prose")>>,
     <<Seg("ws")>>,
     <<Seg("badobj")>>}

EvalReplies ==
    {ErrReply("quota"), ErrReply("network")}
    \cup {OkReply(Lazy(t)) : t \in EvalTexts}
    \cup {OkReply(Candidates(<<Scored(Num(120), "ok", <<"a">>)>>)),
          OkReply(Candidates(<<<<>>, <<>>>>)),
          OkReply(PlainString(Scored(Num(-400), "low", <<>>))),
          OkReply(UnknownShape)}

\* SpecEval: one session, one game, one decision, every input of the bounds.
EvalProfile ==
    [sessions |-> {1}, slots |-> {1},
     maxGames |-> 1, maxSubmits |-> 1,
     envs |-> {EnvOf(<<>>, <<>>, <<>>, <<>>),
               EnvOf(<<>>, <<>>, K1, <<>>),
               EnvOf(<<<<WS, "K1">>, <<WS>>, K2>>, <<>>, <<>>, <<>>)},
     genais |-> {"cjs", "missing"},
     usernames |-> {"an"},
     choices |-> {<<"Phat giao">>},
     names |-> {<<"Dao moi">>},
     decisions |-> Texts(MaxWords),
     replies |-> EvalReplies,
     factors |-> RandomFactors]

\* The words of the keywords of a list, one keyword after the other.
RECURSIVE JoinKeywords(_)
JoinKeywords(keywords) ==
    IF keywords = <<>> THEN <<>> ELSE Head(keywords) \o JoinKeywords(Tail(keywords))

RECURSIVE WithoutViolations(_)
WithoutViolations(keywords) ==
    IF keywords = <<>> THEN <<>>
    ELSE IF HasViolationKeyword(Head(keywords)) THEN WithoutViolations(Tail(keywords))
    ELSE <<Head(keywords)>> \o WithoutViolations(Tail(keywords))

\* Decision texts with p positive and n negative keywords, for every p and n
\* the keyword lists allow in a text without violation keyword.
HeurTexts ==
    {JoinKeywords(SubSeq(POSITIVE_KEYWORDS, 1, p))
        \o JoinKeywords(SubSeq(WithoutViolations(NEGATIVE_KEYWORDS), 1, n)) :
        p \in 0..Len(POSITIVE_KEYWORDS),
        n \in 0..Len(WithoutViolations(NEGATIVE_KEYWORDS))}

\* SpecHeur: one decision, scored by localHeuristic because no key is
\* configured, the key fails or the response is no JSON.
HeurProfile ==
    [sessions |-> {1}, slots |-> {1},
     maxGames |-> 1, maxSubmits |-> 1,
     envs |-> {EnvOf(<<>>, <<>>, <<>>, <<>>), EnvOf(<<>>, <<>>, <<>>, K1)},
     genais |-> {"esm", "missing"},
     usernames |-> {"an"},
     choices |-> {<<"Phat giao">>},
     names |-> {<<"Dao moi">>},
     decisions |-> HeurTexts,
     replies |-> {ErrReply("quota"), OkReply(Lazy(<<Seg("prose")>>))},
     factors |-> RandomFactors]

\* Bounds of the specification SpecSeq: games started and decisions submitted,
\* one request at a time.
SeqGames == 2
SeqSubmits == 3

SeqProfile ==
    [sessions |-> {1}, slots |-> {1},
     maxGames |-> SeqGames, maxSubmits |-> SeqSubmits,
     envs |-> {EnvOf(<<>>, K1, <<>>, <<>>)},
     genais |-> {"esm"},
     usernames |-> {"an"},
     choices |-> {<<"custom">>, <<"Phat giao">>, <<"Cong giao">>},
     names |-> {<<"Dao moi">>},
     decisions |-> {Benign, Violating},
     replies |-> {ErrReply("quota"),
                  OkReply(Lazy(Scored(Num(400), "ok", <<>>)))},
     factors |-> {-2}]

\* The specification SpecPair: two sessions whose requests interleave, a game
\* for each of them, and the bound on the decisions they submit.
PairSessions == {1, 2}
PairSubmits == 2

PairProfile ==
    [sessions |-> PairSessions, slots |-> {1, 2},
     maxGames |-> Cardinality(PairSessions), maxSubmits |-> PairSubmits,
     envs |-> {EnvOf(<<>>, K1, <<>>, <<>>)},
     genais |-> {"esm"},
     usernames |-> {"an"},
     choices |-> {<<"Phat giao">>},
     names |-> {<<"Dao moi">>},
     decisions |-> {Benign, Violating},
     replies |-> {ErrReply("quota"),
                  OkReply(Lazy(Scored(Num(400), "ok", <<>>)))},
     factors |-> {-2}]

\* -------------------------------------------------------------- specification

InitOf(P) ==
    /\ env \in P.envs
    /\ genai \in P.genais
    /\ aiClientCache = <<>>
    /\ clients = <<>>
    /\ sessions = [s \in P.sessions |-> <<>>]
    /\ games = <<>>
    /\ scoreboard = <<>>
    /\ reqs = [r \in P.slots |-> IdleReq]
    /\ scoringError = <<>>

NextOf(P) ==
    \/ \E s \in P.sessions : Login(P, s)
    \/ \E s \in P.sessions : PostStart(P, s)
    \/ \E s \in P.sessions : PostCreate(P, s)
    \/ \E s \in P.sessions : PostGame(P, s)
    \/ \E r \in P.slots : GameBody(P, r)
    \/ \E r \in P.slots : ImportSettles(P, r)
    \/ \E r \in P.slots : BackendReplies(P, r)
    \/ \E r \in P.slots : Resume(P, r)
    \/ \E s \in P.sessions : EndPage(P, s)

\* The server: overlapping requests of a session.
Init == InitOf(MainProfile)
Next == NextOf(MainProfile)
Spec == Init /\ [][Next]_vars

\* One game played through its ten rounds.
InitLong == InitOf(LongProfile)
NextLong == NextOf(LongProfile)
SpecLong == InitLong /\ [][NextLong]_vars

\* One evaluation, over every input of the bounds.
InitEval == InitOf(EvalProfile)
NextEval == NextOf(EvalProfile)
SpecEval == InitEval /\ [][NextEval]_vars

\* One decision scored by the heuristic, over every count of keyword hits.
InitHeur == InitOf(HeurProfile)
NextHeur == NextOf(HeurProfile)
SpecHeur == InitHeur /\ [][NextHeur]_vars

\* One session that submits its decisions one after the other and may start
\* a game again.
InitSeq == InitOf(SeqProfile)
NextSeq == NextOf(SeqProfile)
SpecSeq == InitSeq /\ [][NextSeq]_vars

\* Two sessions, their requests interleaved.
InitPair == InitOf(PairProfile)
NextPair == NextOf(PairProfile)
SpecPair == InitPair /\ [][NextPair]_vars

\* ------------------------------------------------------------------- claims

Last(seq) == seq[Len(seq)]

GameIds == 1..Len(games)

\* A text with a violation keyword in its lower-cased form.
ViolatingText(text) == HasViolationKeyword(toLowerCase(text))

\* callGemini is under way for the request: a client is being loaded or a
\* generateContent call is out or answered.
InCall(req) == req.pc \in {"importing", "calling", "replied"}

\* C1: a decision whose lower-cased text holds a violation keyword gets the
\* result violation = true, change = -10000, and no backend call is made for
\* it: no request with such a text is ever inside callGemini, and when it is
\* the only decision submitted so far no client was made and no scoring error
\* was logged.
C1_ViolationKeywordShortCircuits ==
    /\ \A r \in DOMAIN reqs : InCall(reqs[r]) => ~ViolatingText(reqs[r].decision)
    /\ \A g \in GameIds :
          (games[g].history # <<>> /\ ViolatingText(Last(games[g].history).decision))
          => /\ games[g].lastFeedback # <<>>
             /\ games[g].lastFeedback[1].violation
             /\ games[g].lastFeedback[1].change = Num(-10000)
             /\ Last(games[g].history).change = JStr(VIOLATION_MARK)
             /\ (Submitted = 1 => clients = <<>> /\ scoringError = <<>>)

\* A keyword written in upper case was screened.
C1_Witness ==
    \E g \in GameIds :
        /\ games[g].history # <<>>
        /\ Last(games[g].history).decision = <<"KICH", "dong">>
        /\ games[g].lastFeedback[1].violation
        /\ clients = <<>>

\* C2: every result evaluateDecision returned (the handler stores each as
\* lastFeedback) has change = -10000 when it is a violation and a change in
\* [-400, 400] when it is not.
C2_ResultInRange ==
    \A g \in GameIds :
        games[g].lastFeedback # <<>> =>
            LET res == games[g].lastFeedback[1]
            IN  /\ res.violation => res.change = Num(-10000)
                /\ ~res.violation => Num(-400) <= res.change /\ res.change <= Num(400)

\* The backend's 500 came back as 400.
C2_Witness ==
    \E g \in GameIds :
        /\ games[g].lastFeedback # <<>>
        /\ games[g].lastFeedback[1] =
              [violation |-> FALSE, change |-> Num(400), comment |-> "high", tips |-> <<>>]

\* The call of the request has failed on its last key.
Exhausted(req) ==
    /\ req.idx = Len(ApiKeys)
    /\ \/ req.pc = "replied" /\ ~req.reply.ok
       \/ req.pc = "importing" /\ genai = "missing"

\* The backend answered the request with what parseGeminiResult rejects.
Unparsable(req) ==
    req.pc = "replied" /\ req.reply.ok /\ parseGeminiResult(req.reply.resp).threw

\* C3: when the backend call has failed on every key, or the response cannot
\* be parsed, the request still ends with a result applied to its game, and
\* that result is localHeuristic(decision) up to its random draw: not a
\* violation, the fixed heuristic comment, no tips, a change in [-150, 300].
C3_FallsBackToHeuristic ==
    [][\A r \in DOMAIN reqs :
          (reqs'[r] # reqs[r] /\ (Exhausted(reqs[r]) \/ Unparsable(reqs[r])))
          => LET g == reqs[r].game
             IN  /\ reqs'[r].pc = "idle"
                 /\ Len(games'[g].history) = Len(games[g].history) + 1
                 /\ games'[g].lastFeedback # <<>>
                 /\ ~games'[g].lastFeedback[1].violation
                 /\ games'[g].lastFeedback[1].comment = HEURISTIC_COMMENT
                 /\ games'[g].lastFeedback[1].tips = <<>>
                 /\ games'[g].lastFeedback[1].change \in Num(-150)..Num(300)
                 /\ games'[g].lastFeedback[1] =
                       [localHeuristic(reqs[r].decision, 0)
                          EXCEPT !.change = games'[g].lastFeedback[1].change]]_vars

\* The only key failed and the heuristic's result was applied.
C3_Witness ==
    /\ Len(ApiKeys) = 1
    /\ scoringError = <<"quota">>
    /\ \E g \in GameIds :
          /\ games[g].lastFeedback # <<>>
          /\ games[g].lastFeedback[1].comment = HEURISTIC_COMMENT

\* C4: callGemini takes the keys in their configured order: while it works on
\* the key at place idx, the keys at the places before it have each been
\* attempted once, in order, and failed, and none after it was attempted; the
\* first response that arrives is what callGemini returns: the request ends
\* on it, with the result evaluateDecision makes of that response.
C4_FirstSuccessInOrder ==
    [][\A r \in DOMAIN reqs :
          /\ InCall(reqs'[r]) =>
                /\ reqs'[r].idx \in 1..Len(ApiKeys)
                /\ reqs'[r].key = ApiKeys[reqs'[r].idx]
                /\ Len(reqs'[r].attempts) = reqs'[r].idx - 1
                /\ \A i \in 1..Len(reqs'[r].attempts) :
                      /\ reqs'[r].attempts[i].idx = i
                      /\ reqs'[r].attempts[i].key = ApiKeys[i]
          /\ (reqs'[r] # reqs[r] /\ reqs[r].pc = "replied" /\ reqs[r].reply.ok) =>
                LET parsed == parseGeminiResult(reqs[r].reply.resp)
                    res == games'[reqs[r].game].lastFeedback
                IN  /\ reqs'[r].pc = "idle"
                    /\ res # <<>>
                    /\ IF parsed.threw
                       THEN res[1].comment = HEURISTIC_COMMENT
                       ELSE res[1] = ResultOfParsed(parsed)]_vars

\* Two keys: the first failed (the second key's client was made), the second
\* answered {"change": 120, "comment": "ok", "tips": ["a"]}, which is the result.
C4_Witness ==
    /\ Len(ApiKeys) = 2
    /\ Len(clients) = 2
    /\ scoringError = <<>>
    /\ \E g \in GameIds :
          games[g].lastFeedback =
              <<[violation |-> FALSE, change |-> Num(120), comment |-> "ok", tips |-> <<"a">>]>>

\* The errors the keys of the request's call have given, the one in hand last.
KeyErrors(req) ==
    [i \in 1..Len(req.attempts) |-> req.attempts[i].error]
    \o (IF req.pc = "replied" /\ ~req.reply.ok THEN <<req.reply.error>>
        ELSE IF req.pc = "importing" THEN <<IMPORT_ERROR>>
        ELSE <<>>)

\* The step in which callGemini throws for request r: the request ends on the
\* heuristic's result without a response having arrived.
CallGeminiThrows(r) ==
    /\ reqs[r].pc \in {"body", "importing", "replied"}
    /\ ~(reqs[r].pc = "replied" /\ reqs[r].reply.ok)
    /\ reqs'[r].pc = "idle"
    /\ games' # games
    /\ \E g \in GameIds :
          /\ games'[g] # games[g]
          /\ games'[g].lastFeedback[1].comment = HEURISTIC_COMMENT

SentinelReply(req) ==
    /\ req.pc = "replied" /\ req.reply.ok
    /\ ~parseGeminiResult(req.reply.resp).threw
    /\ parseGeminiResult(req.reply.resp).change <= Num(-10000)

\* C6: a backend response whose parsed change is <= -10000 gives a violation
\* with change exactly -10000 and the backend's comment when it has one (the
\* fixed comment when it has none); it is never clamped to -400.
C6_BackendSentinelIsViolation ==
    [][\A r \in DOMAIN reqs :
          (reqs'[r] # reqs[r] /\ SentinelReply(reqs[r])) =>
              LET parsed == parseGeminiResult(reqs[r].reply.resp)
                  res == games'[reqs[r].game].lastFeedback
              IN  /\ res # <<>>
                  /\ res[1].violation
                  /\ res[1].change = Num(-10000)
                  /\ res[1].comment = (IF parsed.comment # "" THEN parsed.comment
                                       ELSE VIOLATION_COMMENT)]_vars

\* The backend's own comment came back with the violation.
C6_Witness ==
    \E g \in GameIds :
        /\ games[g].lastFeedback # <<>>
        /\ games[g].lastFeedback[1].violation
        /\ games[g].lastFeedback[1].change = Num(-10000)
        /\ games[g].lastFeedback[1].comment = "violated"

\* C7: followers is never negative, in any game, whatever was submitted and
\* however the submissions overlapped.
C7_FollowersNonNegative ==
    \A g \in GameIds : games[g].followers >= 0

\* 100 followers and a change of -400 left 0.
C7_Witness ==
    \E g \in GameIds :
        /\ games[g].followers = 0
        /\ Len(games[g].history) = 1
        /\ games[g].history[1].change = JNum(Num(-400))

\* The step applies a violating result to game g.
AppliesViolation(g) ==
    /\ games'[g] # games[g]
    /\ games'[g].lastFeedback # <<>>
    /\ \/ games'[g].lastFeedback[1].violation
       \/ Last(games'[g].history).change = JStr(VIOLATION_MARK)

\* C8: applying a violating result sets followers to 0, appends one history
\* record for the round the game was in, with the violation mark in place of
\* a number, stores the result as lastFeedback and sets round to 11, whatever
\* round and followers were.
C8_ViolationEndsGame ==
    [][\A g \in GameIds :
          AppliesViolation(g) =>
              /\ games'[g].followers = 0
              /\ games'[g].round = 11
              /\ Len(games'[g].history) = Len(games[g].history) + 1
              /\ SubSeq(games'[g].history, 1, Len(games[g].history)) = games[g].history
              /\ Last(games'[g].history).round = games[g].round
              /\ Last(games'[g].history).change = JStr(VIOLATION_MARK)
              /\ games'[g].lastFeedback[1].violation
              /\ Last(games'[g].history).comment = games'[g].lastFeedback[1].comment
              /\ games'[g].religion = games[g].religion]_vars

\* A violation applied to a game that was at round 11 already.
C8_Witness ==
    \E g \in GameIds :
        /\ Len(games[g].history) = 2
        /\ games[g].history[2].round = 11
        /\ games[g].history[2].change = JStr(VIOLATION_MARK)
        /\ games[g].round = 11
        /\ games[g].followers = 0

\* The step applies a result that is no violation to game g.
AppliesScore(g) ==
    /\ games'[g] # games[g]
    /\ games'[g].lastFeedback # <<>>
    /\ ~games'[g].lastFeedback[1].violation

NoViolationIn(history) ==
    \A i \in 1..Len(history) : history[i].change # JStr(VIOLATION_MARK)

\* C9: applying a result with change c that is no violation to a game with
\* followers f at round r gives followers max(0, f + c) and round r + 1,
\* appends the record {round r, the decision, change c} and stores the result
\* (950 followers at round 9 and c = 80 give 1030 at round 10); a game whose
\* submissions were all without violation is at round 1 + their number, so at
\* 11 after ten.
C9_ScoreAdvancesRound ==
    /\ [][\A g \in GameIds :
             AppliesScore(g) =>
                 LET c == games'[g].lastFeedback[1].change
                 IN  /\ games'[g].followers = Max(0, games[g].followers + c)
                     /\ games'[g].round = games[g].round + 1
                     /\ Len(games'[g].history) = Len(games[g].history) + 1
                     /\ SubSeq(games'[g].history, 1, Len(games[g].history)) = games[g].history
                     /\ Last(games'[g].history).round = games[g].round
                     /\ Last(games'[g].history).change = JNum(c)
                     /\ \E r \in DOMAIN reqs :
                           /\ reqs[r].pc # "idle" /\ reqs'[r].pc = "idle"
                           /\ Last(games'[g].history).decision = reqs[r].decision]_vars
    /\ [](\A g \in GameIds :
             NoViolationIn(games[g].history) => games[g].round = Len(games[g].history) + 1)
    /\ [](LET before == [NewGame(<<"Phat giao">>) EXCEPT !.followers = Num(950), !.round = 9]
              after == GameAfter(before, Benign,
                                 [violation |-> FALSE, change |-> Num(80),
                                  comment |-> "", tips |-> <<>>])
          IN  after.followers = Num(1030) /\ after.round = 10)

\* Ten submissions without a violation: round 11.
C9_Witness ==
    \E g \in GameIds :
        /\ Len(games[g].history) = 10
        /\ NoViolationIn(games[g].history)
        /\ games[g].round = 11

\* C10 as stated: a POST /game whose decision reaches the handler while the
\* session has no game, or a game whose round is 11 or more, is rejected: the
\* request ends there, no game changes and nothing is evaluated (no client is
\* made, no backend call goes out, no scoring error is logged).
C10_InactiveGameRejected ==
    [][\A r \in DOMAIN reqs :
          LET s == reqs[r].session
          IN  (/\ reqs[r].pc = "body"
               /\ reqs'[r] # reqs[r]
               /\ \/ ~HasSession(s)
                  \/ SessionGame(s) = NoGame
                  \/ games[SessionGame(s)].round >= 11)
              => /\ reqs'[r].pc = "idle"
                 /\ games' = games
                 /\ clients' = clients
                 /\ aiClientCache' = aiClientCache
                 /\ scoringError' = scoringError]_vars


\* A text of nothing but white space.
IsBlank(text) == \A i \in 1..Len(text) : text[i] = WS

\* C11: a POST /game whose decision is empty after trimming ends without any
\* evaluation: no game changes (followers, round, history, lastFeedback), no
\* client is made, no backend call goes out and no scoring error is logged.
C11_BlankDecisionIgnored ==
    [][\A r \in DOMAIN reqs :
          (reqs'[r] # reqs[r] /\ reqs[r].pc = "body" /\ IsBlank(reqs[r].body))
          => /\ reqs'[r] = IdleReq
             /\ games' = games
             /\ clients' = clients
             /\ aiClientCache' = aiClientCache
             /\ scoringError' = scoringError]_vars

\* A blank decision submitted to a game that has a round behind it.
C11_Witness ==
    \E r \in DOMAIN reqs :
        /\ reqs[r].pc = "body"
        /\ reqs[r].body = <<WS>>
        /\ SessionGame(reqs[r].session) # NoGame
        /\ Len(games[SessionGame(reqs[r].session)].history) = 1


InHeuristicRange(res) ==
    /\ ~res.violation
    /\ Num(-150) <= res.change
    /\ res.change <= Num(300)

\* C12: for a decision text without violation keyword localHeuristic returns
\* violation = false and a change in [-150, 300], whatever the numbers of
\* positive and negative keywords in the text and whatever the random factor
\* in -2..4: for the text of every request in hand, and in every result the
\* heuristic has given.
C12_HeuristicInRange ==
    /\ \A r \in DOMAIN reqs :
          (reqs[r].decision # <<>> /\ ~ViolatingText(reqs[r].decision))
          => \A f \in RandomFactors : InHeuristicRange(localHeuristic(reqs[r].decision, f))
    /\ \A g \in GameIds :
          (games[g].lastFeedback # <<>>
             /\ games[g].lastFeedback[1].comment = HEURISTIC_COMMENT)
          => InHeuristicRange(games[g].lastFeedback[1])

\* Three negative keywords and the lowest random factor: -190 came back as -150.
C12_Witness ==
    \E g \in GameIds :
        /\ games[g].lastFeedback # <<>>
        /\ games[g].lastFeedback[1].comment = HEURISTIC_COMMENT
        /\ games[g].lastFeedback[1].change = Num(-150)
        /\ Hits(games[g].history[1].decision, POSITIVE_KEYWORDS) = 0
        /\ Hits(games[g].history[1].decision, NEGATIVE_KEYWORDS) = 3


\* C13 as stated: with no credential configured no decision gets an evaluation
\* result: a request whose decision has text, and no violation keyword, ends
\* without a score and without any game being advanced.
C13_NoEvaluationWithoutCredentials ==
    [][\A r \in DOMAIN reqs :
          (/\ reqs'[r] # reqs[r]
           /\ reqs[r].pc = "body"
           /\ getApiKeys(env).threw
           /\ ~IsBlank(reqs[r].body)
           /\ ~ViolatingText(reqs[r].body))
          => games' = games]_vars


\* C14 as stated: an entry is appended to the scoreboard only for a session
\* whose game is at round 11 or more with followers at or over the threshold:
\* never for a game in one of the rounds 1..10.
C14_ScoreboardOnlyWhenTerminal ==
    [][Len(scoreboard') > Len(scoreboard)
       => \E s \in DOMAIN sessions :
             /\ HasSession(s)
             /\ SessionGame(s) # NoGame
             /\ sessions'[s][1].game = NoGame
             /\ games[SessionGame(s)].round >= 11
             /\ games[SessionGame(s)].followers >= Num(600)]_vars


\* Game g is the game of a session, before and after the step.
StaysAttached(g) ==
    \E s \in DOMAIN sessions :
        /\ HasSession(s)
        /\ SessionGame(s) = g
        /\ sessions'[s][1].game = g

\* C15 as stated: once a violating result is the lastFeedback of a game, and
\* until GET /end takes the game from its session, followers stays 0, round
\* stays at 11 or more and lastFeedback stays the violating result, whatever
\* request is handled next, a submission evaluated meanwhile included.
C15_ViolationIsFinal ==
    [][\A g \in GameIds :
          (/\ games[g].lastFeedback # <<>>
           /\ games[g].lastFeedback[1].violation
           /\ StaysAttached(g))
          => /\ games'[g].followers = 0
             /\ games'[g].round >= 11
             /\ games'[g].lastFeedback # <<>>
             /\ games'[g].lastFeedback[1].violation]_vars


\* C16 as stated: the submissions of a session are evaluated one after the
\* other, each from the state the one before left: no two submissions on the
\* same game are under evaluation with the context of the same round.
C16_OneEvaluationPerRound ==
    \A r1, r2 \in DOMAIN reqs :
        (/\ r1 # r2
         /\ InCall(reqs[r1]) /\ InCall(reqs[r2])
         /\ reqs[r1].game = reqs[r2].game)
        => reqs[r1].context.round # reqs[r2].context.round


\* C17: while a game is in one of the rounds 1..10 its history has round - 1
\* records, the i-th being the numeric record of round i, overlapping
\* submissions included; and a violation applied to such a game at round r
\* leaves those r - 1 records and exactly one more, the marked record of
\* round r.
C17_HistoryMatchesRound ==
    [][\A g \in DOMAIN games' :
          /\ games'[g].round \in 1..10
             => /\ Len(games'[g].history) = games'[g].round - 1
                /\ \A i \in 1..Len(games'[g].history) : games'[g].history[i].round = i
                /\ NoViolationIn(games'[g].history)
          /\ (g \in GameIds /\ AppliesViolation(g) /\ games[g].round \in 1..10)
             => /\ Len(games'[g].history) = games[g].round
                /\ SubSeq(games'[g].history, 1, games[g].round - 1) = games[g].history
                /\ Last(games'[g].history).round = games[g].round
                /\ Last(games'[g].history).change = JStr(VIOLATION_MARK)]_vars

\* A violation at round 2: the record of round 1 and the marked record.
C17_Witness ==
    \E g \in GameIds :
        /\ Len(games[g].history) = 2
        /\ games[g].history[1].round = 1
        /\ games[g].history[1].change # JStr(VIOLATION_MARK)
        /\ games[g].history[2].round = 2
        /\ games[g].history[2].change = JStr(VIOLATION_MARK)
        /\ games[g].round = 11


\* C18 as stated: the round of a game never decreases, whatever is applied to
\* the game.
C18_RoundNeverDecreases ==
    [][\A g \in GameIds : games'[g].round >= games[g].round]_vars

\* C19 as stated: while the game of a session is in one of the rounds 1..10
\* no request replaces it by another game or changes its religion: after the
\* step the session has the same game object, with the same religion, or no
\* game.
C19_RunningGameNotReplaced ==
    [][\A s \in DOMAIN sessions :
          (/\ HasSession(s)
           /\ SessionGame(s) # NoGame
           /\ games[SessionGame(s)].round \in 1..10
           /\ sessions'[s][1].game # NoGame)
          => /\ sessions'[s][1].game = SessionGame(s)
             /\ games'[SessionGame(s)].religion = games[SessionGame(s)].religion]_vars


\* The step changes the session entry of s or the game it has.
Touched(s) ==
    \/ sessions'[s] # sessions[s]
    \/ /\ HasSession(s)
       /\ SessionGame(s) # NoGame
       /\ games'[SessionGame(s)] # games[SessionGame(s)]

\* C20: no two sessions have the same game object; a step changes the session
\* entry or the game of one session at most; and the game of a session is
\* changed only by the end of a POST /game request of that session.
C20_SessionsIndependent ==
    [][/\ \A s1, s2 \in DOMAIN sessions :
             (/\ s1 # s2
              /\ sessions'[s1] # <<>> /\ sessions'[s2] # <<>>
              /\ sessions'[s1][1].game # NoGame)
             => sessions'[s1][1].game # sessions'[s2][1].game
       /\ \A s1, s2 \in DOMAIN sessions :
             (s1 # s2 /\ Touched(s1)) => ~Touched(s2)
       /\ \A s \in DOMAIN sessions :
             (/\ HasSession(s)
              /\ SessionGame(s) # NoGame
              /\ games'[SessionGame(s)] # games[SessionGame(s)])
             => \E r \in DOMAIN reqs :
                   /\ reqs[r].pc # "idle"
                   /\ reqs'[r].pc = "idle"
                   /\ reqs[r].session = s]_vars

\* Both sessions have had a decision scored by the backend, through the one
\* client of the shared cache.
C20_Witness ==
    /\ Len(clients) = 1
    /\ \A s \in PairSessions :
          /\ HasSession(s)
          /\ SessionGame(s) # NoGame
          /\ Len(games[SessionGame(s)].history) = 1
          /\ games[SessionGame(s)].lastFeedback[1].comment = "ok"
    /\ SessionGame(1) # SessionGame(2)

\* ------------------------------------------------------------------ C21

\* The client objects built for a key, in the order they were built.
ClientsOf(key) == {c \in DOMAIN clients : clients[c] = key}

\* C21: for a key, getClientForKey builds exactly one client however many
\* calls ask for it, overlapping ones included: no key ever has two clients,
\* and the handle the cache holds for a key is never replaced by another.
C21_OneClientPerKey ==
    [][/\ \A key \in {K1, K2} : Cardinality(ClientsOf(key)') <= 1
       /\ \A key \in DOMAIN aiClientCache :
             /\ key \in DOMAIN aiClientCache'
             /\ aiClientCache'[key] = aiClientCache[key]]_vars

\* ------------------------------------------------------------------ C22

\* The specification SpecPool: the key pools getApiKeys builds from the list
\* variable followed by the single-key variables, and a backend where keys
\* fail; one request at a time.
PoolSubmits == 2
PoolProfile ==
    [sessions |-> {1}, slots |-> {1},
     maxGames |-> 1, maxSubmits |-> PoolSubmits,
     envs |-> {EnvOf(<<K1, K2>>, <<>>, <<>>, <<>>),
               EnvOf(<<K1>>, K1, <<>>, <<>>),
               EnvOf(<<K1, K2>>, <<>>, K2, K1)},
     genais |-> {"cjs", "esm"},
     usernames |-> {"an"},
     choices |-> {<<"custom">>},
     names |-> {<<"Dao moi">>},
     decisions |-> {Benign},
     replies |-> {ErrReply("quota"), ErrReply("auth"),
                  OkReply(Lazy(Scored(Num(400), "ok", <<>>)))},
     factors |-> {-2}]

InitPool == InitOf(PoolProfile)
NextPool == NextOf(PoolProfile)
SpecPool == InitPool /\ [][NextPool]_vars

\* The keys one callGemini call has tried so far, the one in hand included.
TriedKeys(req) == [i \in 1..Len(req.attempts) |-> req.attempts[i].key] \o <<req.key>>

\* C22: within one callGemini call no credential is tried twice, whatever
\* pool getApiKeys built: the keys tried so far are pairwise different.
C22_NoKeyTriedTwice ==
    \A r \in DOMAIN reqs :
        InCall(reqs[r]) =>
            \A i, j \in DOMAIN TriedKeys(reqs[r]) :
                TriedKeys(reqs[r])[i] = TriedKeys(reqs[r])[j] => i = j

\* ------------------------------------------------------------------ C23

\* The specification SpecPoolFair: SpecPool with the scheduling of the event
\* loop.  A handler whose awaited promise has settled is resumed (Resume,
\* ImportSettles) and a request body that was sent arrives (GameBody).
\* Whether the backend settles a generateContent call is not up to the
\* server: BackendReplies carries no fairness, a call may stay pending for
\* ever.
HandlerStep(P, r) == GameBody(P, r) \/ ImportSettles(P, r) \/ Resume(P, r)

SpecPoolFair ==
    /\ InitPool
    /\ [][NextPool]_vars
    /\ \A r \in PoolProfile.slots : WF_vars(HandlerStep(PoolProfile, r))

\* C23: every evaluateDecision call eventually returns, also when a backend
\* call never completes: a request that has entered callGemini eventually
\* ends (its decision applied to the game or rejected).
C23_EveryEvaluationReturns ==
    \A r \in PoolProfile.slots : InCall(reqs[r]) ~> (reqs[r].pc = "idle")

\* ------------------------------------------------------------------ C24

\* The specification SpecParse: one key that answers, and the texts a
\* response may carry: JSON objects, JSON values that are no object, text
\* that is no JSON, a fractional change.
ParseSubmits == 2
Fraction == Num(12) + 1
ParseTexts ==
    {Scored(Num(120), "ok", <<"a">>),
     Scored(Fraction, "half", <<>>),
     <<Seg("num")>>,
     <<Seg("str")>>,
     <<Seg("bool")>>,
     <<Seg("null")>>,
     <<Seg("["), Seg("num"), Seg("]")>>,
     <<Seg("["), Seg("]")>>,
     <<Seg("ws"), Seg("num"), Seg("ws")>>,
     <<Seg("prose")>>,
     <<Seg("ws")>>}

ParseProfile ==
    [sessions |-> {1}, slots |-> {1},
     maxGames |-> 1, maxSubmits |-> ParseSubmits,
     envs |-> {EnvOf(<<>>, <<>>, K1, <<>>)},
     genais |-> {"cjs", "esm"},
     usernames |-> {"an"},
     choices |-> {<<"custom">>},
     names |-> {<<"Dao moi">>},
     decisions |-> {Benign},
     replies |-> {ErrReply("quota")} \cup {OkReply(Lazy(t)) : t \in ParseTexts},
     factors |-> {-2}]

InitParse == InitOf(ParseProfile)
NextParse == NextOf(ParseProfile)
SpecParse == InitParse /\ [][NextParse]_vars

\* No JSON object can be taken out of the response: its text is empty, is no
\* JSON, or is a JSON value other than an object.
NoJsonObject(resp) ==
    LET text == TrimSegs(ResponseText(resp))
    IN  \/ text = <<>>
        \/ \A i \in 1..Len(text) : text[i].k # "obj"

\* C24: when no JSON object can be taken out of the response that arrived,
\* parseGeminiResult fails and the request ends on the heuristic's result;
\* the triple it returns is applied only when an object was parsed.
C24_OnlyObjectsParse ==
    [][\A r \in DOMAIN reqs :
          (/\ reqs'[r] # reqs[r]
           /\ reqs[r].pc = "replied" /\ reqs[r].reply.ok
           /\ NoJsonObject(reqs[r].reply.resp))
          => LET res == games'[reqs[r].game].lastFeedback
             IN  /\ res # <<>>
                 /\ res[1].comment = HEURISTIC_COMMENT
                 /\ scoringError' # <<>>]_vars

\* ------------------------------------------------------------------ C25

\* Number.isInteger on a number of the model (a count of 1/Scale units).
IsInteger(x) == x % Scale = 0

\* C25: the change of every result and the followers of every game are
\* integers: a fraction the backend returned (12.5) never reaches the game.
C25_ChangeAndFollowersIntegers ==
    \A g \in GameIds :
        /\ IsInteger(games[g].followers)
        /\ \A f \in DOMAIN games[g].lastFeedback :
              IsInteger(games[g].lastFeedback[f].change)
        /\ \A h \in DOMAIN games[g].history :
              games[g].history[h].change.t = "num" =>
                  IsInteger(games[g].history[h].change.v)

\* ------------------------------------------------------------------ C26

\* The specification SpecEnd: games that reach the scoreboard threshold and
\* are ended, or replaced, while a request of theirs is still in flight.
EndGames == 2
EndSubmits == 3
EndProfile ==
    [sessions |-> {1}, slots |-> {1, 2},
     maxGames |-> EndGames, maxSubmits |-> EndSubmits,
     envs |-> {EnvOf(<<>>, <<>>, <<>>, K1)},
     genais |-> {"esm"},
     usernames |-> {"an"},
     choices |-> {<<"Phat giao">>},
     names |-> {<<"Dao moi">>},
     decisions |-> {Benign},
     replies |-> {ErrReply("quota"),
                  OkReply(Lazy(Scored(Num(400), "ok", <<>>)))},
     factors |-> {-2}]

InitEnd == InitOf(EndProfile)
NextEnd == NextOf(EndProfile)
SpecEnd == InitEnd /\ [][NextEnd]_vars

C27_ResultAppliedToOwnGame ==
    [][\A r \in DOMAIN reqs :
          (reqs'[r] # reqs[r] /\ InCall(reqs[r]) /\ reqs'[r].pc = "idle")
          => /\ games'[reqs[r].game] # games[reqs[r].game]
             /\ Len(games'[reqs[r].game].history) = Len(games[reqs[r].game].history) + 1
             /\ \A g \in GameIds : g # reqs[r].game => games'[g] = games[g]]_vars

\* The response for a decision of game 1 has arrived and its handler is about
\* to resume, while the session holds game 2, started since and untouched.
C27_Witness ==
    /\ Len(games) = 2
    /\ SessionGame(1) = 2
    /\ games[2].round = 1 /\ games[2].followers = Num(100)
    /\ games[2].history = <<>> /\ games[2].lastFeedback = <<>>
    /\ \E r \in DOMAIN reqs :
          /\ reqs[r].pc = "replied" /\ reqs[r].reply.ok
          /\ reqs[r].game = 1

====
